---------------------------- MODULE Spec2Model ----------------------------
(***************************************************************************)
(* Model of the quote-analysis API (src/main.py): the amount parser        *)
(* _fr2float, the line-oriented field extractors of extract_devis_info,    *)
(* the identifier extractor, the identification score and the /api/verify  *)
(* handler, which walks a batch of uploaded files, queries the business    *)
(* registry and appends one report (or one error entry) per file.          *)
(*                                                                         *)
(* Text is modelled at two levels.  A numeric token is a sequence of       *)
(* one-character strings and _fr2float works on it character by            *)
(* character.  A document is a sequence of lines; a line is named by an    *)
(* identifier of LineIds and LineOf gives what the regular expressions of  *)
(* lines 27-34 find in it (its tokens), so that the scanning, windowing,   *)
(* first-match and maximum rules of the extractors are modelled while      *)
(* regular-expression matching itself is tabulated.                        *)
(*                                                                         *)
(* A Python float is modelled as an exact decimal <<n, d>> (value n/10^d,  *)
(* no trailing zero in the fraction); None, and the empty string, are the  *)
(* empty sequence <<>>.  The similarity ratio of difflib is the exact      *)
(* fraction <<2*M, T>>; round() is round-half-to-even, which agrees with   *)
(* the float computation for every ratio with T < 80.                      *)
(***************************************************************************)
EXTENDS Integers, Sequences, FiniteSets, TLC

VARIABLES
  files,      \* verify: the uploaded batch, a sequence of [name, text]
  ID_STRICT,  \* module flag read from the environment (line 10)
  i,          \* verify: position of the for loop in files (1-based)
  pc,         \* verify: next step of the handler
  text,       \* verify local: text of the current file
  ids,        \* verify local: extract_ids(text)
  ann_hit,    \* verify local: the registry hit kept so far
  results,    \* verify local: the list returned under "results"
  lookups,    \* history: registry queries issued for the current file
  hist,       \* history: per finished file, its fault and first hit
  tok,        \* _fr2float: the token handed to the parser
  parsed      \* _fr2float: what the parser returned for tok

vars == <<files, ID_STRICT, i, pc, text, ids, ann_hit, results, lookups,
          hist, tok, parsed>>

----------------------------------------------------------------------------
(* Bounds of the model *)

MaxFiles == 3
MaxLines == 2
MaxTok == 3

----------------------------------------------------------------------------
(* Values *)

None == <<>>

NBSP == "nbsp"

Digits == {"0", "1", "2", "3", "4", "5", "6", "7", "8", "9"}

DigitVal(c) ==
  CASE c = "0" -> 0 [] c = "1" -> 1 [] c = "2" -> 2 [] c = "3" -> 3
    [] c = "4" -> 4 [] c = "5" -> 5 [] c = "6" -> 6 [] c = "7" -> 7
    [] c = "8" -> 8 [] c = "9" -> 9

Range(s) == {s[k] : k \in 1..Len(s)}

Count(s, c) == Cardinality({k \in 1..Len(s) : s[k] = c})

RECURSIVE Pow10(_)
Pow10(k) == IF k = 0 THEN 1 ELSE 10 * Pow10(k - 1)

RECURSIVE DigitsVal(_)
DigitsVal(s) ==
  IF s = <<>> THEN 0
  ELSE 10 * DigitsVal(SubSeq(s, 1, Len(s) - 1)) + DigitVal(s[Len(s)])

RECURSIVE DecNorm(_, _)
DecNorm(n, d) ==
  IF d > 0 /\ n % 10 = 0 THEN DecNorm(n \div 10, d - 1) ELSE <<n, d>>

DecLt(a, b) == a[1] * Pow10(b[2]) < b[1] * Pow10(a[2])

DecLe(a, b) == ~DecLt(b, a)

DecOfInt(n) == <<n, 0>>

MaxDec(S) == CHOOSE x \in S : \A y \in S : ~DecLt(x, y)

(* round(): num/den rounded to the nearest integer, ties to even *)
RoundHalfEven(num, den) ==
  LET q == num \div den
      r == num % den
  IN  IF 2 * r > den THEN q + 1
      ELSE IF 2 * r < den THEN q
      ELSE IF q % 2 = 0 THEN q ELSE q + 1

----------------------------------------------------------------------------
(* _fr2float, lines 41-52 *)

(* float(s) of line 50 for a string of digits, commas and dots: Python     *)
(* accepts digits with at most one point and at least one digit.           *)
Float(s) ==
  IF \/ "," \in Range(s)
     \/ Count(s, ".") > 1
     \/ Range(s) \cap Digits = {}
  THEN None
  ELSE LET p    == IF "." \in Range(s)
                   THEN CHOOSE k \in 1..Len(s) : s[k] = "."
                   ELSE Len(s) + 1
           ip   == SubSeq(s, 1, p - 1)
           frac == SubSeq(s, p + 1, Len(s))
       IN  DecNorm(DigitsVal(ip \o frac), Len(frac))

_fr2float(s) ==
  IF s = <<>> THEN None
  ELSE LET s1 == SelectSeq(s, LAMBDA c : c \notin {NBSP, " "})
           s2 == SelectSeq(s1, LAMBDA c : c \in Digits \cup {",", "."})
           s3 == IF Count(s2, ",") > 1 /\ "." \in Range(s2)
                 THEN SelectSeq(s2, LAMBDA c : c # ",")
                 ELSE IF Count(s2, ",") = 1 /\ "." \notin Range(s2)
                 THEN [k \in 1..Len(s2) |-> IF s2[k] = "," THEN "." ELSE s2[k]]
                 ELSE s2
       IN  Float(s3)

LineIds ==
  {"Lname", "Lshort", "Lblank", "Lsiret", "Lsiren", "Lcp", "Lkw", "Lpct", "Lacpt", "Ltva", "Lttc0", "Lttc", "Lm2", "Liban", "Ldec"}

LineOf(l) ==
  CASE l = "Lname" ->   \* 'Dupont SARL'
      [chars |-> 11, words |-> <<<<"d", "u", "p", "o", "n", "t">>, <<"s", "a", "r", "l">>>>,
         kw |-> {}, amounts |-> <<>>, pct |-> <<>>, m2 |-> <<>>,
         iban |-> <<>>, dec |-> FALSE, siret |-> <<>>, siren |-> <<>>, cp |-> <<>>]
    [] l = "Lshort" ->   \* 'Bat'
      [chars |-> 3, words |-> <<<<"b", "a", "t">>>>,
         kw |-> {}, amounts |-> <<>>, pct |-> <<>>, m2 |-> <<>>,
         iban |-> <<>>, dec |-> FALSE, siret |-> <<>>, siren |-> <<>>, cp |-> <<>>]
    [] l = "Lblank" ->   \* ''
      [chars |-> 0, words |-> <<>>,
         kw |-> {}, amounts |-> <<>>, pct |-> <<>>, m2 |-> <<>>,
         iban |-> <<>>, dec |-> FALSE, siret |-> <<>>, siren |-> <<>>, cp |-> <<>>]
    [] l = "Lsiret" ->   \* 'SIRET 123 456 789 00011'
      [chars |-> 23, words |-> <<<<"s", "i", "r", "e", "t">>, <<"1", "2", "3">>, <<"4", "5", "6">>, <<"7", "8", "9">>, <<"0", "0", "0", "1", "1">>>>,
         kw |-> {}, amounts |-> <<<<"1", "2", "3">>, <<"4", "5", "6">>, <<"7", "8", "9">>, <<"0", "0", "0", "1", "1">>>>, pct |-> <<>>, m2 |-> <<>>,
         iban |-> <<>>, dec |-> FALSE, siret |-> <<"1", "2", "3", " ", "4", "5", "6", " ", "7", "8", "9", " ", "0", "0", "0", "1", "1">>, siren |-> <<"1", "2", "3", " ", "4", "5", "6", " ", "7", "8", "9", " ">>, cp |-> <<"0", "0", "0", "1", "1">>]
    [] l = "Lsiren" ->   \* 'SIREN 987 654 321'
      [chars |-> 17, words |-> <<<<"s", "i", "r", "e", "n">>, <<"9", "8", "7">>, <<"6", "5", "4">>, <<"3", "2", "1">>>>,
         kw |-> {}, amounts |-> <<<<"9", "8", "7">>, <<"6", "5", "4">>, <<"3", "2", "1">>>>, pct |-> <<>>, m2 |-> <<>>,
         iban |-> <<>>, dec |-> FALSE, siret |-> <<>>, siren |-> <<"9", "8", "7", " ", "6", "5", "4", " ", "3", "2", "1">>, cp |-> <<>>]
    [] l = "Lcp" ->   \* 'Paris 75011'
      [chars |-> 11, words |-> <<<<"p", "a", "r", "i", "s">>, <<"7", "5", "0", "1", "1">>>>,
         kw |-> {}, amounts |-> <<<<"7", "5", "0", "1", "1">>>>, pct |-> <<>>, m2 |-> <<>>,
         iban |-> <<>>, dec |-> FALSE, siret |-> <<>>, siren |-> <<>>, cp |-> <<"7", "5", "0", "1", "1">>]
    [] l = "Lkw" ->   \* 'Acompte'
      [chars |-> 7, words |-> <<<<"a", "c", "o", "m", "p", "t", "e">>>>,
         kw |-> {"acompte"}, amounts |-> <<>>, pct |-> <<>>, m2 |-> <<>>,
         iban |-> <<>>, dec |-> FALSE, siret |-> <<>>, siren |-> <<>>, cp |-> <<>>]
    [] l = "Lpct" ->   \* '50 %'
      [chars |-> 4, words |-> <<<<"5", "0">>>>,
         kw |-> {}, amounts |-> <<<<"5", "0">>>>, pct |-> <<"5", "0">>, m2 |-> <<>>,
         iban |-> <<>>, dec |-> FALSE, siret |-> <<>>, siren |-> <<>>, cp |-> <<>>]
    [] l = "Lacpt" ->   \* 'Acompte 50%'
      [chars |-> 11, words |-> <<<<"a", "c", "o", "m", "p", "t", "e">>, <<"5", "0">>>>,
         kw |-> {"acompte"}, amounts |-> <<<<"5", "0">>>>, pct |-> <<"5", "0">>, m2 |-> <<>>,
         iban |-> <<>>, dec |-> FALSE, siret |-> <<>>, siren |-> <<>>, cp |-> <<>>]
    [] l = "Ltva" ->   \* 'TVA'
      [chars |-> 3, words |-> <<<<"t", "v", "a">>>>,
         kw |-> {"tva"}, amounts |-> <<>>, pct |-> <<>>, m2 |-> <<>>,
         iban |-> <<>>, dec |-> FALSE, siret |-> <<>>, siren |-> <<>>, cp |-> <<>>]
    [] l = "Lttc0" ->   \* 'Total TTC 0 EUR'
      [chars |-> 13, words |-> <<<<"t", "o", "t", "a", "l">>, <<"t", "t", "c">>, <<"0">>>>,
         kw |-> {"ttc"}, amounts |-> <<<<"0">>>>, pct |-> <<>>, m2 |-> <<>>,
         iban |-> <<>>, dec |-> FALSE, siret |-> <<>>, siren |-> <<>>, cp |-> <<>>]
    [] l = "Lttc" ->   \* 'Total TTC 3 500,00 EUR'
      [chars |-> 20, words |-> <<<<"t", "o", "t", "a", "l">>, <<"t", "t", "c">>, <<"3">>, <<"5", "0", "0">>, <<"0", "0">>>>,
         kw |-> {"ttc"}, amounts |-> <<<<"3", " ", "5", "0", "0", ",", "0", "0">>>>, pct |-> <<>>, m2 |-> <<>>,
         iban |-> <<>>, dec |-> FALSE, siret |-> <<>>, siren |-> <<>>, cp |-> <<>>]
    [] l = "Lm2" ->   \* 'Surface 50 m2'
      [chars |-> 13, words |-> <<<<"s", "u", "r", "f", "a", "c", "e">>, <<"5", "0">>, <<"m", "2">>>>,
         kw |-> {}, amounts |-> <<<<"5", "0">>>>, pct |-> <<>>, m2 |-> <<<<"5", "0">>>>,
         iban |-> <<>>, dec |-> FALSE, siret |-> <<>>, siren |-> <<>>, cp |-> <<>>]
    [] l = "Liban" ->   \* 'IBAN DE8937040044053'
      [chars |-> 20, words |-> <<<<"i", "b", "a", "n">>, <<"d", "e", "8", "9", "3", "7", "0", "4", "0", "0", "4", "4", "0", "5", "3">>>>,
         kw |-> {}, amounts |-> <<>>, pct |-> <<>>, m2 |-> <<>>,
         iban |-> <<"D", "E", "8", "9", "3", "7", "0", "4", "0", "0", "4", "4", "0", "5", "3">>, dec |-> FALSE, siret |-> <<>>, siren |-> <<>>, cp |-> <<>>]
    [] l = "Ldec" ->   \* 'Assurance decennale'
      [chars |-> 19, words |-> <<<<"a", "s", "s", "u", "r", "a", "n", "c", "e">>, <<"d", "e", "c", "e", "n", "n", "a", "l", "e">>>>,
         kw |-> {}, amounts |-> <<>>, pct |-> <<>>, m2 |-> <<>>,
         iban |-> <<>>, dec |-> TRUE, siret |-> <<>>, siren |-> <<>>, cp |-> <<>>]

Texts(n) == UNION {[1..k -> LineIds] : k \in 0..n}

(* _line_iter, lines 204-206: the stripped lines in order *)
_line_iter(t) == [k \in 1..Len(t) |-> LineOf(t[k])]

Min(S) == CHOOSE x \in S : \A y \in S : x <= y

----------------------------------------------------------------------------
(* Field extractors, lines 208-309 *)

SeqRange(ss) == {ss[k] : k \in 1..Len(ss)}

(* lines 208-222: amounts on a keyword line and on the line after it, the  *)
(* largest parsed one                                                      *)
_find_amount_near(t, k) ==
  LET lines == _line_iter(t)
      scope(n) == SeqRange(lines[n].amounts) \cup
                  (IF n + 1 <= Len(lines) THEN SeqRange(lines[n + 1].amounts)
                   ELSE {})
      vals == UNION {{_fr2float(m) : m \in scope(n)} \ {None} :
                       n \in {n \in 1..Len(lines) : k \in lines[n].kw}}
  IN  IF vals # {} THEN MaxDec(vals) ELSE None

(* lines 224-231: the first keyword line that itself holds a percentage *)
_find_pct_near(t, k) ==
  LET lines == _line_iter(t)
      hits == {n \in 1..Len(lines) : k \in lines[n].kw /\ lines[n].pct # None}
  IN  IF hits # {} THEN _fr2float(lines[Min(hits)].pct) ELSE None

(* lines 253-261 *)
_find_acompte_pct(t) ==
  LET lines == _line_iter(t)
      hits == {n \in 1..Len(lines) :
                 "acompte" \in lines[n].kw /\ lines[n].pct # None}
  IN  IF hits # {} THEN _fr2float(lines[Min(hits)].pct) ELSE None

(* lines 233-239 *)
_find_surface(t) ==
  LET lines == _line_iter(t)
      all   == UNION {{_fr2float(m) : m \in SeqRange(lines[n].m2)} :
                        n \in 1..Len(lines)}
      cands == {v \in all \ {None} :
                  DecLe(DecOfInt(1), v) /\ DecLe(v, DecOfInt(100000))}
  IN  IF cands # {} THEN MaxDec(cands) ELSE None

(* lines 263-264 *)
_find_decennale(t) == \E n \in 1..Len(t) : LineOf(t[n]).dec

Prefix(s, n) == SubSeq(s, 1, IF Len(s) < n THEN Len(s) ELSE n)

(* lines 276-309 (the fields read by verify's scoring, price per m2 and flags) *)
extract_devis_info(t) ==
  LET lines == _line_iter(t)
      ib    == {n \in 1..Len(lines) : lines[n].iban # None}
  IN  [total_ttc    |-> _find_amount_near(t, "ttc"),
       tva_pct      |-> _find_pct_near(t, "tva"),
       surface_m2   |-> _find_surface(t),
       acompte_pct  |-> _find_acompte_pct(t),
       iban_country |-> IF ib # {} THEN Prefix(lines[Min(ib)].iban, 2)
                        ELSE None,
       decennale    |-> _find_decennale(t)]

----------------------------------------------------------------------------
(* Identifiers, lines 38-39 and 54-60 *)

_digits(s) == SelectSeq(s, LAMBDA c : c \in Digits)

extract_ids(t) ==
  LET lines == _line_iter(t)
      m14   == {n \in 1..Len(lines) : lines[n].siret # None}
      m9    == {n \in 1..Len(lines) : lines[n].siren # None}
      siret == IF m14 # {} THEN Prefix(_digits(lines[Min(m14)].siret), 14)
               ELSE None
      siren == IF siret # None THEN Prefix(siret, 9)
               ELSE IF m9 # {} THEN Prefix(_digits(lines[Min(m9)].siren), 9)
               ELSE None
  IN  [siret |-> siret, siren |-> siren]

----------------------------------------------------------------------------
(* Scoring helpers, lines 36 and 83-100 *)

LEGAL_SUFFIX ==
  {<<"s", "a", "r", "l">>, <<"s", "a", "s">>, <<"s", "a", "s", "u">>,
   <<"e", "u", "r", "l">>, <<"s", "a">>, <<"s", "c", "i">>,
   <<"s", "n", "c">>, <<"s", "c", "e", "a">>, <<"e", "i">>,
   <<"e", "i", "r", "l">>, <<"s", "a", "r", "l", ".">>,
   <<"s", "a", "s", ".">>, <<"s", "a", "s", "u", ".">>, <<"s", "a", ".">>}

RECURSIVE Join(_)
Join(ws) ==
  IF ws = <<>> THEN <<>>
  ELSE IF Len(ws) = 1 THEN ws[1]
  ELSE ws[1] \o <<" ">> \o Join(Tail(ws))

(* lines 83-87; the argument is the word list of the string *)
_norm(ws) == Join(SelectSeq(ws, LAMBDA w : w \notin LEGAL_SUFFIX))

(* difflib.SequenceMatcher(None, a, b): the longest matching block that    *)
(* starts earliest in a, then earliest in b, then the same to its left and *)
(* to its right; positions are 0-based and ranges half-open as in difflib. *)
RECURSIVE Ext(_, _, _, _, _, _)
Ext(a, b, x, y, ahi, bhi) ==
  IF x < ahi /\ y < bhi /\ a[x + 1] = b[y + 1]
  THEN 1 + Ext(a, b, x + 1, y + 1, ahi, bhi)
  ELSE 0

RECURSIVE MatchCount(_, _, _, _, _, _)
MatchCount(a, b, alo, ahi, blo, bhi) ==
  LET starts == {p \in (alo..(ahi - 1)) \X (blo..(bhi - 1)) :
                   a[p[1] + 1] = b[p[2] + 1]}
  IN  IF starts = {} THEN 0
      ELSE LET size(p) == Ext(a, b, p[1], p[2], ahi, bhi)
               kmax == CHOOSE k \in {size(p) : p \in starts} :
                         \A p \in starts : size(p) <= k
               best == {p \in starts : size(p) = kmax}
               bx   == Min({p[1] : p \in best})
               by   == Min({p[2] : p \in {q \in best : q[1] = bx}})
           IN  kmax + MatchCount(a, b, alo, bx, blo, by)
                    + MatchCount(a, b, bx + kmax, ahi, by + kmax, bhi)

(* lines 89-92: the ratio 2*M/T as the fraction <<2*M, T>> *)
_sim_name(a, b) ==
  LET a1 == _norm(a)
      b1 == _norm(b)
  IN  IF a1 = <<>> \/ b1 = <<>> THEN <<0, 1>>
      ELSE <<2 * MatchCount(a1, b1, 0, Len(a1), 0, Len(b1)),
             Len(a1) + Len(b1)>>

IsCP(w) == Len(w) = 5 /\ Range(w) \subseteq Digits

(* lines 94-96 on the document: the first 5-digit token of the text *)
_postal_text(t) ==
  LET lines == _line_iter(t)
      m     == {n \in 1..Len(lines) : lines[n].cp # None}
  IN  IF m # {} THEN lines[Min(m)].cp ELSE None

(* lines 94-96 on the mapped address, a list of space-separated parts *)
_postal(adr) ==
  LET m == {n \in 1..Len(adr) : IsCP(adr[n])}
  IN  IF m # {} THEN adr[Min(m)] ELSE None

(* lines 98-100 *)
_naf_is_construction(naf) ==
  /\ Len(naf) >= 2
  /\ SubSeq(naf, 1, 2) \in {<<"4", "1">>, <<"4", "2">>, <<"4", "3">>}

----------------------------------------------------------------------------
(* Registry answers, lines 103-131 *)

NoSiege == [kind |-> "none", siret |-> None, adresse |-> <<>>]

(* Sample first hits of the registry; siege.kind "str" is a payload whose  *)
(* "siege" is not an object, on which line 116 raises.                     *)
HitIds == {"Hdupont", "Hmartin", "Hnosiege", "Hbad"}

HitOf(h) ==
  CASE h = "Hdupont" ->
       [nom_complet |-> <<<<"d", "u", "p", "o", "n", "t">>>>,
        nom_raison_sociale |-> None,
        siren |-> <<"1", "2", "3", "4", "5", "6", "7", "8", "9">>,
        siret |-> None,
        siege |-> [kind |-> "dict",
                   siret |-> <<"1", "2", "3", "4", "5", "6", "7", "8", "9",
                               "0", "0", "0", "1", "1">>,
                   adresse |-> <<<<"7", "5", "0", "1", "1">>,
                                 <<"p", "a", "r", "i", "s">>>>],
        etablissement_siege |-> NoSiege,
        activite_principale |-> <<"4", "3", ".", "2", "1", "A">>]
    [] h = "Hmartin" ->
       [nom_complet |-> None,
        nom_raison_sociale |-> <<<<"m", "a", "r", "t", "i", "n">>>>,
        siren |-> <<"5", "5", "2", "1", "0", "0", "5", "5", "4">>,
        siret |-> None,
        siege |-> NoSiege,
        etablissement_siege |->
          [kind |-> "dict",
           siret |-> <<"5", "5", "2", "1", "0", "0", "5", "5", "4",
                       "0", "0", "0", "1", "3">>,
           adresse |-> <<<<"1", "2">>, <<"r", "u", "e">>,
                         <<"6", "9", "0", "0", "1">>>>],
        activite_principale |-> <<"6", "2", ".", "0", "1", "Z">>]
    [] h = "Hnosiege" ->
       [nom_complet |-> <<<<"d", "u", "p", "o", "n", "t">>,
                          <<"b", "a", "t", "i", "m", "e", "n", "t">>>>,
        nom_raison_sociale |-> None,
        siren |-> <<"9", "8", "7", "6", "5", "4", "3", "2", "1">>,
        siret |-> None,
        siege |-> NoSiege,
        etablissement_siege |-> NoSiege,
        activite_principale |-> <<"4", "1", ".", "2", "0", "A">>]
    [] h = "Hbad" ->
       [nom_complet |-> <<<<"d", "u", "p", "o", "n", "t">>>>,
        nom_raison_sociale |-> None,
        siren |-> <<"1", "2", "3", "4", "5", "6", "7", "8", "9">>,
        siret |-> None,
        siege |-> [kind |-> "str", siret |-> None, adresse |-> <<>>],
        etablissement_siege |-> NoSiege,
        activite_principale |-> None]

(* What the registry call of lines 105-108 can produce: a failure (a       *)
(* timeout, an HTTP error status, an unreadable body), an empty result     *)
(* list, or a first hit.                                                   *)
Responses == {"FAIL", "EMPTY"} \cup HitIds

NoHit == "None"

(* lines 103-111: the first hit, None on any failure *)
search_annuaire(resp) == IF resp \in HitIds THEN resp ELSE NoHit

(* Python's "x or y" on values whose falsy form is None / "" *)
Or(x, y) == IF x # None THEN x ELSE y

SiegeOf(hit) ==
  IF hit.siege.kind # "none" THEN hit.siege
  ELSE IF hit.etablissement_siege.kind # "none" THEN hit.etablissement_siege
  ELSE NoSiege

(* line 116 calls .get on siege: an AttributeError when it is a string *)
MapRaises(h) == h # NoHit /\ SiegeOf(HitOf(h)).kind = "str"

EmptyMapped ==
  [raisonSociale |-> None, siren |-> None, siret |-> None, naf |-> None,
   adresse |-> <<>>]

(* lines 113-131, and line 335 for no hit *)
map_annuaire(h) ==
  IF h = NoHit THEN EmptyMapped
  ELSE LET hit   == HitOf(h)
           siege == SiegeOf(hit)
       IN  [raisonSociale |-> Or(hit.nom_complet, hit.nom_raison_sociale),
            siren         |-> hit.siren,
            siret         |-> Or(siege.siret, hit.siret),
            naf           |-> hit.activite_principale,
            adresse       |-> siege.adresse]

----------------------------------------------------------------------------
(* The per-file computation of verify, lines 335-418 *)

first_line(t) ==
  LET lines == _line_iter(t)
      m     == {n \in 1..Len(lines) : lines[n].chars > 0}
  IN  IF m # {} THEN lines[Min(m)] ELSE LineOf("Lblank")

(* Python truthiness of an optional float: None and 0.0 are false *)
Truthy(v) == v # None /\ v[1] # 0

Clamp(lo, hi, x) == IF x < lo THEN lo ELSE IF x > hi THEN hi ELSE x

(* Points with the name term taken from the rounded percentage instead of  *)
(* the ratio                                                               *)
PointsFromPct(siret_match, sim, address_match, naf_coherent) ==
  (IF siret_match THEN 60 ELSE 0)
  + RoundHalfEven(RoundHalfEven(sim[1] * 100, sim[2]) * 15, 100)
  + (IF address_match THEN 15 ELSE 0)
  + (IF naf_coherent THEN 10 ELSE 0)

(* lines 344 and 355-358 *)
Points(siret_match, sim, address_match, naf_coherent) ==
  (IF siret_match THEN 60 ELSE 0)
  + RoundHalfEven(sim[1] * 15, sim[2])
  + (IF address_match THEN 15 ELSE 0)
  + (IF naf_coherent THEN 10 ELSE 0)

(* IdentificationPct without the strict shortcut of lines 352-353 *)
IdentificationPctWeighted(strict, siret_match, sim, address_match, naf_coherent) ==
  Clamp(0, 100, Points(siret_match, sim, address_match, naf_coherent))

(* lines 352-359 *)
IdentificationPct(strict, siret_match, sim, address_match, naf_coherent) ==
  IF strict /\ siret_match THEN 100
  ELSE Clamp(0, 100, Points(siret_match, sim, address_match, naf_coherent))

(* lines 364-369: total / max(1.0, surface) rounded to 2 decimals *)
PrixM2(total_ttc, surface_m2) ==
  IF Truthy(total_ttc) /\ Truthy(surface_m2)
  THEN LET s == IF DecLt(surface_m2, DecOfInt(1)) THEN DecOfInt(1)
                ELSE surface_m2
       IN  DecNorm(RoundHalfEven(100 * total_ttc[1] * Pow10(s[2]),
                                 s[1] * Pow10(total_ttc[2])), 2)
  ELSE None

Flag(msg, arg) == [msg |-> msg, arg |-> arg]

FR == <<"F", "R">>

(* lines 411-417 *)
DrapeauxRouges(siret_final, siren_out, extr) ==
  (IF siret_final # None \/ siren_out # None THEN <<>>
   ELSE <<Flag("SIRET/SIREN introuvable", None)>>)
  \o (IF extr.iban_country # None /\ extr.iban_country # FR
      THEN <<Flag("IBAN non FR", extr.iban_country)>> ELSE <<>>)
  \o (IF extr.total_ttc = None
      THEN <<Flag("Total TTC non detecte", None)>> ELSE <<>>)

(* lines 335-412: the report of one file from the handler's locals; the    *)
(* optional Pappers, Google and RGE ports are not configured (lines 14,    *)
(* 136, 155, 182) and their fields are left out.                           *)
BuildReport(fname, t, id, h, strict) ==
  LET mapped        == map_annuaire(h)
      siret_final   == Or(id.siret, mapped.siret)
      siren_out     == Or(id.siren, mapped.siren)
      siret_match   == siret_final # None /\ mapped.raisonSociale # None
      sim           == _sim_name(first_line(t).words, mapped.raisonSociale)
      cp_text       == _postal_text(t)
      cp_addr       == _postal(mapped.adresse)
      address_match == cp_text # None /\ cp_addr # None /\ cp_text = cp_addr
      naf_coherent  == _naf_is_construction(mapped.naf)
      extr          == extract_devis_info(t)
  IN  [file          |-> fname,
       raisonSociale |-> mapped.raisonSociale,
       siret         |-> siret_final,
       siren         |-> siren_out,
       naf           |-> mapped.naf,
       total_ttc     |-> extr.total_ttc,
       tva_pct       |-> extr.tva_pct,
       surface_m2    |-> extr.surface_m2,
       prix_m2       |-> PrixM2(extr.total_ttc, extr.surface_m2),
       acompte_pct   |-> extr.acompte_pct,
       iban_country  |-> extr.iban_country,
       decennale     |-> extr.decennale,
       scores        |->
         [identification_pct  |-> IdentificationPct(strict, siret_match, sim,
                                     address_match, naf_coherent),
          siret_match         |-> siret_match,
          name_similarity_pct |-> RoundHalfEven(sim[1] * 100, sim[2]),
          address_match       |-> address_match,
          naf_coherent        |-> naf_coherent],
       drapeaux_rouges |-> DrapeauxRouges(siret_final, siren_out, extr)]

(* line 420 *)
ErrorEntry(fname, e) == [file |-> fname, error |-> e]

IsError(r) == "error" \in DOMAIN r

----------------------------------------------------------------------------
(* The /api/verify handler, lines 320-422, one action per step between two *)
(* suspension points                                                       *)

FirstHit(log) ==
  LET m == {n \in 1..Len(log) : log[n].resp \in HitIds}
  IN  IF m # {} THEN log[Min(m)].resp ELSE NoHit

(* ReadText without the reset of line 327 *)
ReadTextKeepHit ==
  /\ pc = "read"
  /\ i <= Len(files)
  /\ text' = files[i].text
  /\ ids' = extract_ids(files[i].text)
  /\ lookups' = <<>>
  /\ pc' = "siret"
  /\ UNCHANGED <<files, ID_STRICT, i, ann_hit, results, hist, tok, parsed>>

(* lines 325-327: read the file, extract the identifiers, reset the hit *)
ReadText ==
  /\ pc = "read"
  /\ i <= Len(files)
  /\ text' = files[i].text
  /\ ids' = extract_ids(files[i].text)
  /\ ann_hit' = NoHit
  /\ lookups' = <<>>
  /\ pc' = "siret"
  /\ UNCHANGED <<files, ID_STRICT, i, results, hist, tok, parsed>>

(* line 325 raising (file.read() fails), caught at lines 419-420 *)
ReadFault ==
  /\ pc = "read"
  /\ i <= Len(files)
  /\ results' = Append(results, ErrorEntry(files[i].name, "read failed"))
  /\ hist' = Append(hist, [fault |-> "read", hit |-> NoHit])
  /\ i' = i + 1
  /\ lookups' = <<>>
  /\ UNCHANGED <<files, ID_STRICT, pc, text, ids, ann_hit, tok, parsed>>

(* line 329 *)
QuerySiret ==
  /\ pc = "siret"
  /\ IF ids.siret # None
     THEN \E r \in Responses :
            /\ ann_hit' = search_annuaire(r)
            /\ lookups' = Append(lookups, [q |-> "siret", resp |-> r])
     ELSE UNCHANGED <<ann_hit, lookups>>
  /\ pc' = "siren"
  /\ UNCHANGED <<files, ID_STRICT, i, text, ids, results, hist, tok, parsed>>

(* QuerySiren without the "not ann_hit" test of line 330 *)
QuerySirenUnguarded ==
  /\ pc = "siren"
  /\ IF ids.siren # None
     THEN \E r \in Responses :
            /\ ann_hit' = search_annuaire(r)
            /\ lookups' = Append(lookups, [q |-> "siren", resp |-> r])
     ELSE UNCHANGED <<ann_hit, lookups>>
  /\ pc' = "name"
  /\ UNCHANGED <<files, ID_STRICT, i, text, ids, results, hist, tok, parsed>>

(* line 330 *)
QuerySiren ==
  /\ pc = "siren"
  /\ IF ann_hit = NoHit /\ ids.siren # None
     THEN \E r \in Responses :
            /\ ann_hit' = search_annuaire(r)
            /\ lookups' = Append(lookups, [q |-> "siren", resp |-> r])
     ELSE UNCHANGED <<ann_hit, lookups>>
  /\ pc' = "name"
  /\ UNCHANGED <<files, ID_STRICT, i, text, ids, results, hist, tok, parsed>>

(* lines 331-333 *)
QueryName ==
  /\ pc = "name"
  /\ IF ann_hit = NoHit /\ first_line(text).chars > 3
     THEN \E r \in Responses :
            /\ ann_hit' = search_annuaire(r)
            /\ lookups' = Append(lookups, [q |-> "name", resp |-> r])
     ELSE UNCHANGED <<ann_hit, lookups>>
  /\ pc' = "score"
  /\ UNCHANGED <<files, ID_STRICT, i, text, ids, results, hist, tok, parsed>>

(* lines 335-418: map the hit, score, extract, append the report *)
Finish ==
  /\ pc = "score"
  /\ ~MapRaises(ann_hit)
  /\ results' = Append(results,
                  BuildReport(files[i].name, text, ids, ann_hit, ID_STRICT))
  /\ hist' = Append(hist, [fault |-> "none", hit |-> FirstHit(lookups)])
  /\ i' = i + 1
  /\ lookups' = <<>>
  /\ pc' = "read"
  /\ UNCHANGED <<files, ID_STRICT, text, ids, ann_hit, tok, parsed>>

(* line 335 raising on a malformed hit, caught at lines 419-420 *)
MapFault ==
  /\ pc = "score"
  /\ MapRaises(ann_hit)
  /\ results' = Append(results,
                  ErrorEntry(files[i].name, "AttributeError"))
  /\ hist' = Append(hist, [fault |-> "map", hit |-> FirstHit(lookups)])
  /\ i' = i + 1
  /\ lookups' = <<>>
  /\ pc' = "read"
  /\ UNCHANGED <<files, ID_STRICT, text, ids, ann_hit, tok, parsed>>

(* line 422 *)
Return ==
  /\ pc = "read"
  /\ i > Len(files)
  /\ pc' = "done"
  /\ UNCHANGED <<files, ID_STRICT, i, text, ids, ann_hit, results, lookups,
                 hist, tok, parsed>>

(* the parser applied to a token *)
Fr2Float ==
  /\ parsed = <<"pending">>
  /\ parsed' = <<"done", _fr2float(tok)>>
  /\ UNCHANGED <<files, ID_STRICT, i, pc, text, ids, ann_hit, results,
                 lookups, hist, tok>>

----------------------------------------------------------------------------
(* Specifications *)

Doc(n, t) == [name |-> n, text |-> t]

InitLocals ==
  /\ i = 1
  /\ pc = "read"
  /\ text = <<>>
  /\ ids = [siret |-> None, siren |-> None]
  /\ ann_hit = NoHit
  /\ results = <<>>
  /\ lookups = <<>>
  /\ hist = <<>>

(* one uploaded document, any text of at most MaxLines sample lines *)
Init ==
  /\ files \in {<<Doc("devis.txt", t)>> : t \in Texts(MaxLines)}
  /\ ID_STRICT \in BOOLEAN
  /\ InitLocals
  /\ tok = <<>>
  /\ parsed = <<"idle">>

Next ==
  \/ ReadText
  \/ ReadFault
  \/ QuerySiret
  \/ QuerySiren
  \/ QueryName
  \/ Finish
  \/ MapFault
  \/ Return

Spec == Init /\ [][Next]_vars

(* a batch of 1..MaxFiles uploads drawn from these documents *)
BatchDocs ==
  {Doc("a.txt", <<"Lname", "Lcp", "Lsiret">>),
   Doc("b.pdf", <<"Lblank", "Lsiren", "Lttc">>),
   Doc("c.txt", <<"Lshort">>)}

InitBatch ==
  /\ files \in UNION {[1..n -> BatchDocs] : n \in 1..MaxFiles}
  /\ ID_STRICT \in BOOLEAN
  /\ InitLocals
  /\ tok = <<>>
  /\ parsed = <<"idle">>

SpecBatch == InitBatch /\ [][Next]_vars

FrChars == {"0", "1", "5", " ", NBSP, ".", ","}

(* the tokens named by the documentation of the parser *)
FrSamples ==
  {<<"1", "2", " ", "3", "4", "5", ",", "6", "7">>,
   <<"1", ".", "2", "3", "4", ",", "5", "6">>,
   <<"3", " ", "5", "0", "0", ",", "0", "0">>}

InitFr ==
  /\ tok \in (UNION {[1..n -> FrChars] : n \in 0..MaxTok}) \cup FrSamples
  /\ parsed = <<"pending">>
  /\ files = <<>>
  /\ ID_STRICT = TRUE
  /\ InitLocals

NextFr == Fr2Float

SpecFr == InitFr /\ [][NextFr]_vars

----------------------------------------------------------------------------
(* Properties *)

Reports == {k \in 1..Len(results) : ~IsError(results[k])}

TextIds(k) == extract_ids(files[k].text)

(* C1: a batch of N files yields N entries in input order; the entry of a  *)
(* file whose processing raised is an error entry {file, error}; the entry *)
(* of any other file is the report determined by that file alone (its      *)
(* text and the registry record found for it), whatever happened to the    *)
(* files before it.                                                        *)
(* the report of an upload of BatchDocs given the registry record found    *)
(* for it and the identification mode, tabulated                           *)
ExpectedReport ==
  [d \in BatchDocs, h \in HitIds \cup {NoHit}, s \in BOOLEAN |->
     BuildReport(d.name, d.text, extract_ids(d.text), h, s)]

C1_BatchIsolation ==
  /\ Len(results) = i - 1
  /\ Len(hist) = Len(results)
  /\ pc = "done" => Len(results) = Len(files)
  /\ \A k \in 1..Len(results) :
       /\ results[k].file = files[k].name
       /\ hist[k].fault # "none" => DOMAIN results[k] = {"file", "error"}
       /\ hist[k].fault = "none" =>
            results[k] = ExpectedReport[files[k], hist[k].hit, ID_STRICT]

C1_Witness ==
  /\ pc = "done"
  /\ Len(files) = 3
  /\ hist[1].fault = "none" /\ hist[1].hit # NoHit
  /\ hist[2].fault = "map"
  /\ hist[3].fault = "none" /\ hist[3].hit = NoHit
  /\ ~IsError(results[1]) /\ IsError(results[2]) /\ ~IsError(results[3])

Weighted(k) == ~(ID_STRICT /\ results[k].scores.siret_match)

Fixed(sc) ==
  (IF sc.siret_match THEN 60 ELSE 0)
  + (IF sc.address_match THEN 15 ELSE 0)
  + (IF sc.naf_coherent THEN 10 ELSE 0)

Sim(k) == _sim_name(first_line(files[k].text).words, results[k].raisonSociale)

(* C2, as claimed: in the weighted branch identificationPct is             *)
(* clamp(0, 100, 60*siretMatch + round(nameSimilarityPct * 0.15)           *)
(* + 15*addressMatch + 10*industryCodeCoherent) with nameSimilarityPct the *)
(* integer reported in the same result, and 0 without a registry record.   *)
C2_Original ==
  \A k \in Reports :
    LET sc == results[k].scores
    IN  Weighted(k) =>
          /\ sc.identification_pct =
               Clamp(0, 100, Fixed(sc)
                             + RoundHalfEven(sc.name_similarity_pct * 15, 100))
          /\ hist[k].hit = NoHit => sc.identification_pct = 0

(* C2, amended: in the weighted branch identificationPct is                *)
(* clamp(0, 100, 60*siretMatch + round(similarity * 15) + 15*addressMatch  *)
(* + 10*industryCodeCoherent) where similarity is the unrounded ratio      *)
(* between the first non-empty line and the registry name,                 *)
(* nameSimilarityPct is round(similarity * 100), the name term is within 1 *)
(* of round(nameSimilarityPct * 0.15), and the result is 0 without a       *)
(* registry record.                                                        *)
C2_Amended ==
  \A k \in Reports :
    LET sc   == results[k].scores
        sim  == Sim(k)
        term == RoundHalfEven(sim[1] * 15, sim[2])
        viaP == RoundHalfEven(sc.name_similarity_pct * 15, 100)
    IN  Weighted(k) =>
          /\ sc.identification_pct = Clamp(0, 100, Fixed(sc) + term)
          /\ sc.name_similarity_pct = RoundHalfEven(sim[1] * 100, sim[2])
          /\ sc.name_similarity_pct \in 0..100
          /\ term - viaP \in {-1, 0, 1}
          /\ hist[k].hit = NoHit => sc.identification_pct = 0

C2_Witness ==
  \E k \in Reports :
    LET sc  == results[k].scores
        sim == Sim(k)
    IN  /\ Weighted(k)
        /\ hist[k].hit # NoHit
        /\ sc.siret_match
        /\ RoundHalfEven(sim[1] * 15, sim[2])
             # RoundHalfEven(sc.name_similarity_pct * 15, 100)

(* C3, as claimed: in strict mode a document in which a SIRET or a SIREN   *)
(* was found and whose registry record supplies a company name gets        *)
(* identificationPct = 100, and without a registry record strict mode      *)
(* never yields 100.                                                       *)
C3_Original ==
  \A k \in Reports :
    ID_STRICT =>
      /\ ( /\ (TextIds(k).siret # None \/ TextIds(k).siren # None)
           /\ results[k].raisonSociale # None )
         => results[k].scores.identification_pct = 100
      /\ hist[k].hit = NoHit => results[k].scores.identification_pct # 100

(* C3, amended: in strict mode a document for which a SIRET is available   *)
(* (found in the text or supplied by the registry record; a SIREN alone    *)
(* is not enough) and whose registry record supplies a company name gets   *)
(* identificationPct = 100, and without a registry record strict mode      *)
(* never yields 100.                                                       *)
C3_Amended ==
  \A k \in Reports :
    LET mapped == map_annuaire(hist[k].hit)
    IN  ID_STRICT =>
          /\ ( /\ Or(TextIds(k).siret, mapped.siret) # None
               /\ mapped.raisonSociale # None )
             => results[k].scores.identification_pct = 100
          /\ hist[k].hit = NoHit =>
               results[k].scores.identification_pct # 100

C3_Witness ==
  \E k \in Reports :
    /\ ID_STRICT
    /\ TextIds(k).siret = None
    /\ TextIds(k).siren # None
    /\ map_annuaire(hist[k].hit).siret # None
    /\ results[k].raisonSociale # None
    /\ results[k].scores.identification_pct = 100

(* the first keyword line with a percentage on it or on the line after it  *)
NextLinePct(t, k) ==
  LET lines == _line_iter(t)
      here(n)  == lines[n].pct # None
      below(n) == n + 1 <= Len(lines) /\ lines[n + 1].pct # None
      hits  == {n \in 1..Len(lines) :
                  k \in lines[n].kw /\ (here(n) \/ below(n))}
  IN  IF hits = {} THEN None
      ELSE LET n == Min(hits)
           IN  _fr2float(IF here(n) THEN lines[n].pct ELSE lines[n + 1].pct)

(* C4: a percentage on the line after a keyword line that holds none is    *)
(* found; the deposit and the VAT extractor return the first qualifying    *)
(* match in line order.                                                    *)
C4_Original ==
  \A k \in Reports :
    /\ results[k].acompte_pct = NextLinePct(files[k].text, "acompte")
    /\ results[k].tva_pct = NextLinePct(files[k].text, "tva")

(* the cleanup the documentation of the parser describes *)
DocumentedFr2Float(s) ==
  LET s1 == SelectSeq(s, LAMBDA c : c \notin {NBSP, " "})
      s2 == IF "," \in Range(s1) THEN SelectSeq(s1, LAMBDA c : c # ".")
            ELSE s1
      s3 == IF Count(s2, ",") = 1
            THEN [k \in 1..Len(s2) |-> IF s2[k] = "," THEN "." ELSE s2[k]]
            ELSE s2
  IN  Float(s3)

(* C5: _fr2float removes spaces, non-breaking spaces and, when a comma     *)
(* decimal is present, grouping dots, turns the single remaining comma     *)
(* into the decimal point and returns the number ("1.234,56" gives         *)
(* 1234.56), or null when what remains is not numeric.                     *)
C5_Original ==
  parsed[1] = "done" => parsed[2] = DocumentedFr2Float(tok)

(* C6: every report carries a risk verdict: globalScore in 0..100,         *)
(* riskLevel low iff score >= 80, moderate iff 60 <= score < 80, high iff  *)
(* score < 60, at most 3 diagnostics.                                      *)
C6_Original ==
  \A k \in Reports :
    /\ {"globalScore", "riskLevel", "diagnostics"} \subseteq DOMAIN results[k]
    /\ results[k].globalScore \in 0..100
    /\ results[k].riskLevel =
         (IF results[k].globalScore >= 80 THEN "low"
          ELSE IF results[k].globalScore >= 60 THEN "moderate" ELSE "high")
    /\ Len(results[k].diagnostics) <= 3

FlagAt(fl, m) == {n \in 1..Len(fl) : fl[n].msg = m}

(* C7: the red flags hold an entry for a foreign IBAN, for a deposit above *)
(* 40 %, for an undetected total and for absent insurance exactly when the *)
(* condition holds, in that relative order.                                *)
C7_Original ==
  \A k \in Reports :
    LET r  == results[k]
        fl == r.drapeaux_rouges
        order == <<"IBAN non FR", "Acompte superieur a 40 %",
                   "Total TTC non detecte", "Assurance decennale absente">>
    IN  /\ FlagAt(fl, order[1]) # {}
             <=> (r.iban_country # None /\ r.iban_country # FR)
        /\ FlagAt(fl, order[2]) # {}
             <=> (r.acompte_pct # None /\ DecLt(DecOfInt(40), r.acompte_pct))
        /\ FlagAt(fl, order[3]) # {} <=> r.total_ttc = None
        /\ ~r.decennale => FlagAt(fl, order[4]) # {}
        /\ \A a, b \in 1..4 : \A x \in FlagAt(fl, order[a]) :
             \A y \in FlagAt(fl, order[b]) : a < b => x < y

(* C8: prix_m2 is present exactly when total_ttc and surface_m2 both are   *)
(* (a total of 0 included) and is then total / max(1, surface) rounded to  *)
(* 2 decimals.                                                             *)
C8_Original ==
  \A k \in Reports :
    LET r == results[k]
        s == IF DecLt(r.surface_m2, DecOfInt(1)) THEN DecOfInt(1)
             ELSE r.surface_m2
    IN  /\ r.prix_m2 # None <=> (r.total_ttc # None /\ r.surface_m2 # None)
        /\ r.prix_m2 # None =>
             r.prix_m2 = DecNorm(RoundHalfEven(100 * r.total_ttc[1] * Pow10(s[2]),
                                               s[1] * Pow10(r.total_ttc[2])), 2)

IsSiret(s) == Len(s) = 14 /\ Range(s) \subseteq Digits

(* C9: in the identifier result and in every report, a present siret is a  *)
(* 14-digit string and siren is its first 9 digits; a 9-digit SIREN of the *)
(* text is used only when no 14-digit SIRET was found.                     *)
C9_Original ==
  /\ ids.siret # None => IsSiret(ids.siret) /\ ids.siren = SubSeq(ids.siret, 1, 9)
  /\ \A k \in Reports :
       results[k].siret # None =>
         /\ IsSiret(results[k].siret)
         /\ results[k].siren = SubSeq(results[k].siret, 1, 9)

Rank(q) == CASE q = "siret" -> 1 [] q = "siren" -> 2 [] q = "name" -> 3

(* C10: for one document the registry is queried in the order SIRET,       *)
(* SIREN, first non-empty line; the SIREN and the name query are issued    *)
(* only if no earlier query returned a hit, the name query only if that    *)
(* line is longer than 3 characters; at most 3 queries; the record used is *)
(* the hit of the first query that succeeded; a query that fails counts as *)
(* no hit and never makes the document an error entry.                     *)
C10_LookupOrder ==
  /\ Len(lookups) <= 3
  /\ \A a, b \in 1..Len(lookups) :
       a < b => Rank(lookups[a].q) < Rank(lookups[b].q)
  /\ \A n \in 1..Len(lookups) :
       /\ lookups[n].q \in {"siren", "name"} =>
            \A m \in 1..(n - 1) : lookups[m].resp \notin HitIds
       /\ lookups[n].q = "name" => first_line(text).chars > 3
       /\ lookups[n].resp \notin HitIds => n < Len(lookups) \/ ann_hit = NoHit
  /\ pc = "score" => ann_hit = FirstHit(lookups)
  /\ \A k \in 1..Len(results) :
       /\ ~IsError(results[k]) =>
            results[k].raisonSociale = map_annuaire(hist[k].hit).raisonSociale
       /\ IsError(results[k]) =>
            hist[k].fault = "read" \/ MapRaises(hist[k].hit)

C10_Witness ==
  /\ pc = "score"
  /\ Len(lookups) = 3
  /\ lookups[1].resp = "FAIL"
  /\ lookups[2].resp = "EMPTY"
  /\ lookups[3].resp \in HitIds
  /\ ann_hit = lookups[3].resp

=============================================================================
